---- MODULE Spec2Model ----
(***************************************************************************)
(* Model of the documentation generator of src/app.py (a Streamlit script) *)
(* and src/agent.py.                                                       *)
(*                                                                         *)
(* Strings are sequences of tokens.  A token is one character, or one run  *)
(* of characters that the modelled code never looks inside ("github.com",  *)
(* a file name, a directory name).                                         *)
(*                                                                         *)
(* Four specifications share the module:                                   *)
(*   Spec      one browser session running main(): Generate, Report and    *)
(*             Generate Report clicks, the caches, the temporary clones    *)
(*   SpecUrl   is_github_url / process_input_path on bounded inputs        *)
(*   SpecEnum  get_python_files on bounded directory trees                 *)
(*   SpecEval  evaluate_documentation on bounded document pairs            *)
(*   SpecSynth generate_holistic_documentation called repeatedly, with the *)
(*             content of its st.cache_data store                          *)
(***************************************************************************)
EXTENDS Integers, Sequences, FiniteSets, TLC

VARIABLES
    \* ---- main(): one script run of the session (Spec)
    pc,              \* position of the script run: idle, enumerate, extract, synth, finally, done
    input_path,      \* st.text_input value of the run
    template_choice, \* st.selectbox value of the run
    resolved,        \* what process_input_path did: none, local, remote, InvalidPath, AcquisitionError
    temp_dir,        \* main's local temp_dir: 0 is None, else the id of the TemporaryDirectory
    file_paths,      \* main's local file_paths
    idx,             \* number of loop iterations of lines 202-208 completed
    project_info,    \* main's local project_info
    returned,        \* history: what extract_info returned in each iteration so far
    warnings,        \* history: paths given to logger.warning at line 207
    raised,          \* which call of the try block raised, or "none"
    session_state,   \* st.session_state: documentation and show_evaluation
    disk,            \* ids of the temporary directories that exist on disk
    garbage,         \* ids whose TemporaryDirectory object is unreachable with a live finalizer
    releases,        \* history: how many times each temporary directory was removed
    cloned,          \* history: ids whose Repo.clone_from succeeded
    nextId,          \* next TemporaryDirectory id
    openaiBound,     \* whether the name `openai` resolves in app.py (it is never imported)
    ghdLast,         \* history: the invocation of generate_holistic_documentation of the run
    evalLast,        \* history: the invocation of evaluate_documentation of the run
    \* ---- generate_holistic_documentation (SpecSynth)
    ghdCache,        \* st.cache_data store of generate_holistic_documentation
    requests,        \* number of requests issued to the completion capability
    invocations,     \* number of invocations so far
    synthLast,       \* history: the last invocation
    \* ---- is_github_url (SpecUrl)
    url,             \* the input string
    urlResult,       \* how process_input_path classified it: none, remote, local
    \* ---- get_python_files (SpecEnum)
    tree,            \* the directory tree under the root, as it is now
    edits,           \* number of changes made to the tree
    gpfCache,        \* st.cache_data store of get_python_files
    calls,           \* history: the calls of get_python_files
    \* ---- evaluate_documentation (SpecEval)
    original_doc,    \* the reference document
    generated_doc,   \* the generated document
    evalPrompt,      \* the local `prompt` of evaluate_documentation
    evalDone         \* whether lines 148-149 have run

mainVars == <<pc, input_path, template_choice, resolved, temp_dir, file_paths, idx,
              project_info, returned, warnings, raised, session_state, disk, garbage,
              releases, cloned, nextId, openaiBound, ghdLast, evalLast>>
synthVars == <<ghdCache, requests, invocations, synthLast>>
urlVars == <<url, urlResult>>
enumVars == <<tree, edits, gpfCache, calls>>
evalVars == <<original_doc, generated_doc, evalPrompt, evalDone>>
vars == <<mainVars, synthVars, urlVars, enumVars, evalVars>>

(***************************************************************************)
(* Bounds of the model.                                                    *)
(***************************************************************************)
MaxFiles == 2       \* files a directory enumerates in Spec
MaxClones == 1      \* TemporaryDirectory objects created in one session
MaxRespLen == 1     \* characters of a completion response
MaxInvocations == 3 \* invocations of generate_holistic_documentation (SpecSynth)
MaxPathLen == 4     \* tokens of the path part of an input (SpecUrl)
MaxTreeDepth == 2   \* nesting of the directory tree (SpecEnum)
MaxCalls == 2       \* calls of get_python_files (SpecEnum)
MaxEdits == 1       \* changes to the directory tree (SpecEnum)
MaxPieces == 2      \* pieces a document is made of (SpecEval)

(***************************************************************************)
(* Generic sequence helpers.                                               *)
(***************************************************************************)
SeqsUpTo(S, n) == UNION {[1..k -> S] : k \in 0..n}

RECURSIVE Count(_, _)
\* str.count for a one-token needle
Count(s, t) ==
    IF s = <<>> THEN 0
    ELSE (IF Head(s) = t THEN 1 ELSE 0) + Count(Tail(s), t)

RECURSIVE Flatten(_)
Flatten(ss) == IF ss = <<>> THEN <<>> ELSE Head(ss) \o Flatten(Tail(ss))

Last(s) == s[Len(s)]

\* Python values: None, a str, a key missing from a dict
None == [kind |-> "None"]
Str(s) == [kind |-> "str", text |-> s]
Absent == [kind |-> "absent"]

(***************************************************************************)
(* is_github_url, app.py 43-49, with urllib.parse.urlparse on tokens.      *)
(***************************************************************************)
RECURSIVE UpTo(_, _)
\* the longest prefix of s with no token of `stops`
UpTo(s, stops) ==
    IF s = <<>> \/ Head(s) \in stops THEN <<>>
    ELSE <<Head(s)>> \o UpTo(Tail(s), stops)

\* urlparse: an initial scheme token is removed; a following "//" introduces the
\* netloc, which runs to the next "/", "?" or "#"; the path runs to the next "?" or "#"
urlparse(u) ==
    LET rest == IF u # <<>> /\ Head(u) = "https:" THEN Tail(u) ELSE u
        hasNetloc == Len(rest) >= 2 /\ rest[1] = "/" /\ rest[2] = "/"
        afterSlashes == IF hasNetloc THEN SubSeq(rest, 3, Len(rest)) ELSE rest
        netloc == IF hasNetloc THEN UpTo(afterSlashes, {"/", "?", "#"}) ELSE <<>>
        afterNetloc == SubSeq(afterSlashes, Len(netloc) + 1, Len(afterSlashes))
    IN  [netloc |-> netloc, path |-> UpTo(afterNetloc, {"?", "#"})]

RECURSIVE lstrip(_, _)
lstrip(s, t) == IF s # <<>> /\ Head(s) = t THEN lstrip(Tail(s), t) ELSE s

RECURSIVE rstrip(_, _)
rstrip(s, t) ==
    IF s # <<>> /\ Last(s) = t THEN rstrip(SubSeq(s, 1, Len(s) - 1), t) ELSE s

\* str.strip(t) for a one-character t
strip(s, t) == rstrip(lstrip(s, t), t)

RECURSIVE split(_, _)
\* str.split(t): the pieces between the occurrences of t, empty pieces kept
split(s, t) ==
    LET first == UpTo(s, {t})
    IN  IF Len(first) = Len(s) THEN <<s>>
        ELSE <<first>> \o split(SubSeq(s, Len(first) + 2, Len(s)), t)

is_github_url(u) ==
    /\ urlparse(u).netloc = <<"github.com">>
    /\ Len(split(strip(urlparse(u).path, "/"), "/")) >= 2

(***************************************************************************)
(* Inputs and environment of a session (Spec).                             *)
(***************************************************************************)
UrlRepo == <<"https:", "/", "/", "github.com", "/", "owner", "/", "repo">>
LocalDir == <<"proj">>
MissingDir == <<"proj", "/", "gone">>
MainInputs == {<<>>, UrlRepo, LocalDir, MissingDir}

\* os.path.exists, app.py 166
ExistingPaths == {LocalDir}

TemplateChoices == {"Default", "Detailed API Reference", "Minimal Project Overview"}

\* app.py 184-190
Template(choice) ==
    IF choice = "Default"
    THEN "# Project Overview\n## Installation\n## Usage\n## API Reference\n## Contributing"
    ELSE IF choice = "Detailed API Reference"
    THEN "# Project Overview\n## Installation\n## Usage\n## API Documentation\n### Classes\n### Functions\n## Contributing"
    ELSE "# Project Overview\n## Installation\n"

Paths == 1..MaxFiles
Ids == 1..MaxClones


\* what get_python_files hands to main: path i is the i-th path os.walk yielded
FileLists == {[i \in 1..n |-> i] : n \in 0..MaxFiles}

\* app.py 35-41, 84-90: the record extract_info builds for a file
FileInfo(p) == [file_path |-> p]

\* the texts the completion capability can answer with
Responses == SeqsUpTo({" ", "d"}, MaxRespLen)

Failures == {"AuthenticationError", "APIConnectionError", "Exception"}

\* app.py 108: the project structure line of the prompt
Structure(pinfo) == [i \in 1..Len(pinfo) |-> pinfo[i].file_path]

\* app.py 107-124: the prompt, as its three variable parts
Prompt(pinfo, template) ==
    [structure |-> Structure(pinfo), file_summaries |-> pinfo, template |-> template]

\* app.py 136-143: what generate_holistic_documentation returns for an outcome of
\* the completion call: the stripped text, or None after any of the three failures
SynthReturn(outcome, text) ==
    IF outcome = "ok" THEN Str(strip(text, " ")) ELSE None

\* app.py 138, 140, 142: st.error for the two known failures, logger.error otherwise
SynthMessage(outcome) ==
    IF outcome = "AuthenticationError"
    THEN "Invalid Azure OpenAI API Key. Please check your configuration."
    ELSE IF outcome = "APIConnectionError"
    THEN "Failed to connect to Azure OpenAI. Please check your network and API endpoint."
    ELSE ""

\* st.cache_data: a store is a set of <<key, value>> pairs
Hit(cache, key) == \E e \in cache : e[1] = key
Stored(cache, key) == (CHOOSE e \in cache : e[1] = key)[2]

\* One invocation as the history records it.
GhdCall(hit, issued, outcome, ret, prompt, cache) ==
    [called |-> TRUE, hit |-> hit, issued |-> issued, outcome |-> outcome,
     ret |-> ret, prompt |-> prompt, message |-> SynthMessage(outcome), cache |-> cache]

\* app.py 104-143 behind st.cache_data(ttl=3600): every way one invocation can go,
\* given the store and whether the name `openai` resolves.  ret = Absent: it raised.
generate_holistic_documentation(cache, pinfo, template, bound) ==
    LET key == <<pinfo, template>>
        prompt == Prompt(pinfo, template)
    IN  IF Hit(cache, key)
        THEN \* the stored value is returned: the body does not run
             {GhdCall(TRUE, 0, "cached", Stored(cache, key), None, cache)}
        ELSE IF ~bound
        THEN \* line 127 raises NameError, and evaluating the except clause of line
             \* 137 raises it again, which leaves the function; nothing is stored
             {GhdCall(FALSE, 0, "NameError", Absent, prompt, cache)}
        ELSE \* one request, lines 129-135; the returned value is stored
             {GhdCall(FALSE, 1, "ok", SynthReturn("ok", text), prompt,
                      cache \cup {<<key, SynthReturn("ok", text)>>}) : text \in Responses}
             \cup
             {GhdCall(FALSE, 1, f, SynthReturn(f, <<>>), prompt,
                      cache \cup {<<key, SynthReturn(f, <<>>)>>}) : f \in Failures}

\* the values an invocation can have stored
SynthValues == {SynthReturn("ok", text) : text \in Responses} \cup {None}

NoCall == [called |-> FALSE]

MainInit ==
    /\ pc = "idle"
    /\ input_path = <<>>
    /\ template_choice = "Default"
    /\ resolved = "none"
    /\ temp_dir = 0
    /\ file_paths = <<>>
    /\ idx = 0
    /\ project_info = <<>>
    /\ returned = <<>>
    /\ warnings = <<>>
    /\ raised = "none"
    /\ session_state = [documentation |-> Absent, show_evaluation |-> FALSE]
    /\ disk = {}
    /\ garbage = {}
    /\ releases = [i \in Ids |-> 0]
    /\ cloned = {}
    /\ nextId = 1
    /\ openaiBound \in BOOLEAN
    /\ ghdLast = NoCall
    /\ evalLast = NoCall

(***************************************************************************)
(* main(), app.py 172-255, one action per step of a script run.            *)
(***************************************************************************)
frozenMain == <<synthVars, urlVars, enumVars, evalVars>>

\* app.py 192-196 with process_input_path, 155-170, and clone_github_repo, 51-59.
\* The click runs the script up to the try block of line 197.
ClickGenerate(inp, choice) ==
    /\ pc = "idle"
    /\ inp # <<>>
    /\ input_path' = inp
    /\ template_choice' = choice
    /\ IF is_github_url(inp)
       THEN /\ nextId <= MaxClones
            /\ nextId' = nextId + 1
            \* tempfile.TemporaryDirectory() creates the directory, line 54
            /\ disk' = disk \cup {nextId}
            /\ \/ \* Repo.clone_from returns: the caller owns the object
                  /\ resolved' = "remote"
                  /\ temp_dir' = nextId
                  /\ cloned' = cloned \cup {nextId}
                  /\ garbage' = garbage
                  /\ pc' = "enumerate"
               \/ \* Repo.clone_from raises: lines 57-59 and 161-163 call no cleanup();
                  \* the object is dropped with its finalizer still armed
                  /\ resolved' = "AcquisitionError"
                  /\ temp_dir' = 0
                  /\ cloned' = cloned
                  /\ garbage' = garbage \cup {nextId}
                  /\ pc' = "done"
       ELSE /\ UNCHANGED <<nextId, disk, cloned, garbage>>
            /\ temp_dir' = 0
            /\ IF inp \in ExistingPaths
               THEN resolved' = "local" /\ pc' = "enumerate"
               ELSE resolved' = "InvalidPath" /\ pc' = "done"
    /\ UNCHANGED <<file_paths, idx, project_info, returned, warnings, raised,
                   session_state, releases, openaiBound, ghdLast, evalLast, frozenMain>>

\* app.py 198-199: get_python_files hands back a list, or an exception leaves it
\* (os.walk on a vanished root, a script stop inside the cache wrapper or st.progress)
Enumerate ==
    /\ pc = "enumerate"
    /\ \/ \E fl \in FileLists :
            /\ file_paths' = fl
            /\ pc' = IF fl = <<>> THEN "synth" ELSE "extract"
            /\ raised' = raised
       \/ /\ raised' = "get_python_files"
          /\ pc' = "finally"
          /\ file_paths' = file_paths
    /\ UNCHANGED <<input_path, template_choice, resolved, temp_dir, idx, project_info,
                   returned, warnings, session_state, disk, garbage, releases, cloned,
                   nextId, openaiBound, ghdLast, evalLast, frozenMain>>

\* app.py 204-207 with a placeholder entry for a file that gave None
Collect_placeholder(pinfo, file_info, p) == Append(pinfo, FileInfo(p))

\* app.py 204-207: an entry for a FileInfo, a warning for None
Collect(pinfo, file_info, p) ==
    IF file_info # None THEN Append(pinfo, file_info) ELSE pinfo

Warn(ws, file_info, p) ==
    IF file_info # None THEN ws ELSE Append(ws, p)

\* app.py 72-93: the body of extract_info.  Reading, decoding and parsing are all
\* inside the try of line 75; any Exception gives None (lines 91-93).
extract_info(p, parses) == IF parses THEN FileInfo(p) ELSE None

\* One iteration of the loop of app.py 202-208.  extract_info is behind
\* st.cache_data(ttl=3600), a store shared by every session of the server: on a hit
\* the body does not run and the value some earlier call stored comes back.
ExtractStep ==
    /\ pc = "extract"
    /\ idx < Len(file_paths)
    /\ LET p == file_paths[idx + 1]
           Iterate(file_info, how) ==
               /\ project_info' = Collect(project_info, file_info, p)
               /\ warnings' = Warn(warnings, file_info, p)
               /\ returned' = Append(returned, [value |-> file_info, body |-> how])
               /\ \/ \* progress_bar.progress returns, line 208
                     /\ idx' = idx + 1
                     /\ raised' = raised
                     /\ pc' = IF idx + 1 = Len(file_paths) THEN "synth" ELSE "extract"
                  \/ \* progress_bar.progress raises
                     /\ idx' = idx
                     /\ raised' = "progress"
                     /\ pc' = "finally"
       IN  \/ \E parses \in BOOLEAN : Iterate(extract_info(p, parses), "cached")
           \/ \E parses \in BOOLEAN :
                 Iterate(extract_info(p, parses), IF parses THEN "parsed" ELSE "failed")
           \/ \* an exception that is no Exception leaves the cache wrapper
              /\ raised' = "extract_info"
              /\ pc' = "finally"
              /\ UNCHANGED <<idx, project_info, warnings, returned>>
    /\ UNCHANGED <<input_path, template_choice, resolved, temp_dir, file_paths,
                   session_state, disk, garbage, releases, cloned, nextId, openaiBound,
                   ghdLast, evalLast, frozenMain>>

\* the stores main can find for a key: st.cache_data is shared by every session of the
\* server, so the store holds nothing for the key or the value an earlier call
\* returned (with `openai` unbound no call ever returned)
Stores(key, bound) ==
    {{}} \cup (IF bound THEN {{<<key, v>>} : v \in SynthValues} ELSE {})

\* app.py 210-211
Synthesize ==
    /\ pc = "synth"
    /\ LET key == <<project_info, Template(template_choice)>>
       IN  \E store \in Stores(key, openaiBound) :
           \E r \in generate_holistic_documentation(store, project_info,
                                                    Template(template_choice), openaiBound) :
              /\ ghdLast' = [r EXCEPT !.cache = {}]
              /\ IF r.ret = Absent
                 THEN /\ raised' = "generate_holistic_documentation"
                      /\ session_state' = session_state
                 ELSE /\ raised' = raised
                      /\ session_state' = [session_state EXCEPT !.documentation = r.ret]
    /\ pc' = "finally"
    /\ UNCHANGED <<input_path, template_choice, resolved, temp_dir, file_paths, idx,
                   project_info, returned, warnings, disk, garbage, releases, cloned,
                   nextId, openaiBound, evalLast, frozenMain>>

\* app.py 212-214 as it would be without the finally: cleanup after line 211 only
CleanupOnExit_successOnly(exc, td) == exc = "none" /\ td # 0

\* app.py 212-214: the finally block runs however the try block was left
CleanupOnExit(exc, td) == td # 0

Finally ==
    /\ pc = "finally"
    /\ IF CleanupOnExit(raised, temp_dir)
       THEN \* TemporaryDirectory.cleanup(): detaches the finalizer, removes the tree
            /\ disk' = disk \ {temp_dir}
            /\ releases' = [releases EXCEPT ![temp_dir] = @ + 1]
       ELSE UNCHANGED <<disk, releases>>
    /\ pc' = "done"
    /\ UNCHANGED <<input_path, template_choice, resolved, temp_dir, file_paths, idx,
                   project_info, returned, warnings, raised, session_state, garbage,
                   cloned, nextId, openaiBound, ghdLast, evalLast, frozenMain>>

\* The script run ends (after rendering lines 216-255 with no button pressed, or
\* with the exception that left it): main's locals are dropped.  A TemporaryDirectory
\* that was not cleaned up becomes garbage with its finalizer armed.
EndRun ==
    /\ pc = "done"
    /\ pc' = "idle"
    /\ garbage' = IF temp_dir # 0 /\ temp_dir \in disk THEN garbage \cup {temp_dir} ELSE garbage
    /\ temp_dir' = 0
    /\ resolved' = "none"
    /\ input_path' = <<>>
    /\ file_paths' = <<>>
    /\ idx' = 0
    /\ project_info' = <<>>
    /\ returned' = <<>>
    /\ warnings' = <<>>
    /\ raised' = "none"
    /\ ghdLast' = NoCall
    /\ evalLast' = NoCall
    /\ UNCHANGED <<template_choice, session_state, disk, releases, cloned, nextId,
                   openaiBound, frozenMain>>

\* app.py 216-221: the Report button exists once the key is in the session state
ClickReport ==
    /\ pc = "idle"
    /\ session_state.documentation # Absent
    /\ session_state' = [session_state EXCEPT !.show_evaluation = TRUE]
    /\ UNCHANGED <<pc, input_path, template_choice, resolved, temp_dir, file_paths, idx,
                   project_info, returned, warnings, raised, disk, garbage, releases,
                   cloned, nextId, openaiBound, ghdLast, evalLast, frozenMain>>

\* reference documents of the evaluation section (upload, paste or attach)
MainOriginals == {<<>>, <<"r">>}

\* app.py 223-248: Generate Report calls evaluate_documentation with whatever
\* st.session_state.documentation holds; the call ends in a TypeError (line 149
\* for None, else line 151: return_agent takes one parameter, agent.py 19), and
\* the script run ends with it
ClickGenerateReport(orig) ==
    /\ pc = "idle"
    /\ session_state.show_evaluation
    /\ orig # <<>>
    /\ evalLast' = [called |-> TRUE, original_doc |-> orig,
                    generated_doc |-> session_state.documentation]
    /\ pc' = "done"
    /\ UNCHANGED <<input_path, template_choice, resolved, temp_dir, file_paths, idx,
                   project_info, returned, warnings, raised, session_state, disk, garbage,
                   releases, cloned, nextId, openaiBound, ghdLast, frozenMain>>

\* The garbage collector runs the finalizer of an unreachable TemporaryDirectory
\* (tempfile: weakref.finalize), at a time the language does not fix.
Finalize(id) ==
    /\ id \in garbage
    /\ garbage' = garbage \ {id}
    /\ disk' = disk \ {id}
    /\ releases' = [releases EXCEPT ![id] = @ + 1]
    /\ UNCHANGED <<pc, input_path, template_choice, resolved, temp_dir, file_paths, idx,
                   project_info, returned, warnings, raised, session_state, cloned,
                   nextId, openaiBound, ghdLast, evalLast, frozenMain>>

SynthFrozen ==
    ghdCache = {} /\ requests = 0 /\ invocations = 0 /\ synthLast = NoCall
UrlFrozen == url = <<>> /\ urlResult = "none"
EnumFrozen == tree = <<>> /\ edits = 0 /\ gpfCache = {} /\ calls = <<>>
EvalFrozen ==
    original_doc = <<>> /\ generated_doc = <<>> /\ evalPrompt = <<>> /\ evalDone = FALSE

Init == MainInit /\ SynthFrozen /\ UrlFrozen /\ EnumFrozen /\ EvalFrozen

Next ==
    \/ \E inp \in MainInputs, choice \in TemplateChoices : ClickGenerate(inp, choice)
    \/ Enumerate
    \/ ExtractStep
    \/ Synthesize
    \/ Finally
    \/ EndRun
    \/ ClickReport
    \/ \E orig \in MainOriginals : ClickGenerateReport(orig)
    \/ \E id \in Ids : Finalize(id)

Spec == Init /\ [][Next]_vars

(***************************************************************************)
(* Properties of a session (Spec).                                         *)
(***************************************************************************)

\* C1: the temporary directory of a successful clone is removed exactly once before
\* the script run ends, however the try block of lines 197-211 is left; it exists
\* and is unreleased while get_python_files, extract_info and
\* generate_holistic_documentation can still run, and once released it stays so.
C1_CloneReleasedExactlyOnce ==
    \A id \in cloned :
        /\ releases[id] <= 1
        /\ (id = temp_dir /\ pc \in {"enumerate", "extract", "synth"})
               => (releases[id] = 0 /\ id \in disk)
        /\ (id # temp_dir \/ pc = "done")
               => (releases[id] = 1 /\ id \notin disk /\ id \notin garbage)

\* C1 witness: a run on a clone that an exception left has ended, the clone released
C1_Witness ==
    /\ pc = "done"
    /\ temp_dir \in cloned
    /\ raised # "none"
    /\ releases[temp_dir] = 1

RECURSIVE Successes(_, _)
\* the FileInfo of the paths whose extract_info call gave one, in order
Successes(fps, rets) ==
    IF rets = <<>> THEN <<>>
    ELSE (IF Head(rets).value # None THEN <<FileInfo(Head(fps))>> ELSE <<>>)
         \o Successes(Tail(fps), Tail(rets))

RECURSIVE Nones(_, _)
\* the paths whose extract_info call gave None, in order
Nones(fps, rets) ==
    IF rets = <<>> THEN <<>>
    ELSE (IF Head(rets).value = None THEN <<Head(fps)>> ELSE <<>>)
         \o Nones(Tail(fps), Tail(rets))

\* C2: project_info is exactly the subsequence of the enumerated paths whose
\* extract_info call succeeded, in enumeration order; a file whose read or parse
\* fails gives None, no entry and one warning; the prompt lists the paths of
\* project_info in that order.
C2_ProjectInfoIsSuccessSubsequence ==
    (pc \in {"extract", "synth", "finally", "done"} /\ resolved \in {"local", "remote"}) =>
        /\ Len(returned) <= Len(file_paths)
        /\ project_info = Successes(file_paths, returned)
        /\ warnings = Nones(file_paths, returned)
        /\ \A i \in 1..Len(returned) : returned[i].body = "failed" => returned[i].value = None
        /\ (ghdLast.called /\ ghdLast.prompt # None) =>
               /\ Len(returned) = Len(file_paths)
               /\ ghdLast.prompt.structure = Structure(Successes(file_paths, returned))

\* C2 witness: a file that failed to parse came before one that parsed, and the
\* prompt was built from the one entry
C2_Witness ==
    /\ pc = "finally"
    /\ Len(returned) = 2
    /\ returned[1].body = "failed"
    /\ returned[2].body = "parsed"
    /\ project_info = <<FileInfo(file_paths[2])>>
    /\ warnings = <<file_paths[1]>>
    /\ ghdLast.called
    /\ ghdLast.prompt # None

C8_FailedCloneLeavesNoDirectory ==
    (pc = "done" /\ resolved = "AcquisitionError") =>
        /\ file_paths = <<>>
        /\ returned = <<>>
        /\ ~ghdLast.called
        /\ (nextId - 1) \notin disk

SynthInputs == {[i \in 1..Len(fl) |-> FileInfo(fl[i])] : fl \in FileLists}

Invoke(pinfo, choice) ==
    /\ invocations < MaxInvocations
    /\ invocations' = invocations + 1
    /\ \E r \in generate_holistic_documentation(ghdCache, pinfo, Template(choice), openaiBound) :
          /\ ghdCache' = r.cache
          /\ requests' = requests + r.issued
          /\ synthLast' = [r EXCEPT !.cache = {}]
    /\ UNCHANGED <<mainVars, urlVars, enumVars, evalVars>>

\* ttl=3600, app.py 104: an entry expires
ExpireEntry ==
    /\ \E e \in ghdCache : ghdCache' = ghdCache \ {e}
    /\ UNCHANGED <<requests, invocations, synthLast, mainVars, urlVars, enumVars, evalVars>>

SynthInit ==
    /\ MainInit /\ UrlFrozen /\ EnumFrozen /\ EvalFrozen
    /\ ghdCache = {}
    /\ requests = 0
    /\ invocations = 0
    /\ synthLast = NoCall

SynthNext ==
    \/ \E pinfo \in SynthInputs, choice \in TemplateChoices : Invoke(pinfo, choice)
    \/ ExpireEntry

SpecSynth == SynthInit /\ [][SynthNext]_vars

\* C6: every invocation of generate_holistic_documentation issues exactly one request
\* and returns the outcome of that request, also when an earlier invocation had the
\* same project_info and template; no stored outcome is returned.  Stated for the
\* processes in which the name `openai` resolves.
C6_OneRequestPerInvocation ==
    (openaiBound /\ synthLast.called) =>
        /\ synthLast.issued = 1
        /\ ~synthLast.hit
        /\ requests = invocations

(***************************************************************************)
(* SpecUrl: is_github_url and the branch of process_input_path, app.py     *)
(* 158-165, on bounded input strings.                                      *)
(***************************************************************************)
Authorities ==
    {<<>>, <<"github.com">>, <<"github.com", ":443">>, <<"user@", "github.com">>,
     <<"gitlab.com">>}

UrlInputs ==
    {scheme \o slashes \o auth \o path \o query :
        scheme \in {<<>>, <<"https:">>},
        slashes \in {<<>>, <<"/", "/">>},
        auth \in Authorities,
        path \in SeqsUpTo({"/", "a"}, MaxPathLen),
        query \in {<<>>, <<"?", "a", "/", "a">>}}

\* app.py 158, 165: a GitHub URL is cloned, anything else is a local path
Classify ==
    /\ urlResult = "none"
    /\ urlResult' = IF is_github_url(url) THEN "remote" ELSE "local"
    /\ UNCHANGED <<url, mainVars, synthVars, enumVars, evalVars>>

UrlInit ==
    /\ MainInit /\ SynthFrozen /\ EnumFrozen /\ EvalFrozen
    /\ url \in UrlInputs
    /\ urlResult = "none"

UrlNext == Classify

SpecUrl == UrlInit /\ [][UrlNext]_vars

\* the host of a netloc (urllib: hostname): without the userinfo and the port
Host(netloc) == SelectSeq(netloc, LAMBDA t : t \notin {"user@", ":443"})

\* the number of non-empty "/"-separated segments of a path
NonEmptySegments(path) == Len(SelectSeq(split(path, "/"), LAMBDA seg : seg # <<>>))

\* C9: is_github_url is true exactly for the strings that parse as a URL whose host
\* is github.com and whose path has at least two non-empty segments; every other
\* input is treated as a local path.
C9_GithubUrlIffHostAndTwoSegments ==
    urlResult # "none" =>
        (urlResult = "remote" <=>
            /\ Host(urlparse(url).netloc) = <<"github.com">>
            /\ NonEmptySegments(urlparse(url).path) >= 2)

(***************************************************************************)
(* SpecEnum: get_python_files, app.py 61-70, on a chain of directories     *)
(* root, root/d, root/d/d, ... that changes between calls.                 *)
(***************************************************************************)
MAX_DIRECTORY_DEPTH == 5

PyFile == <<"m", ".py">>
TxtFile == <<"r", ".txt">>
\* the order in which os.walk lists the files of a directory
FileOrder == <<PyFile, TxtFile>>
FileNames == {PyFile, TxtFile}
Levels == 0..MaxTreeDepth

\* a tree: levels 0..depth exist, files[k] are the files of the directory at level k
Trees ==
    {t \in [depth : Levels, files : [Levels -> SUBSET FileNames]] :
        \A k \in Levels : k > t.depth => t.files[k] = {}}

RootSpellings == {<<"proj">>, <<"proj", "/">>}
MaxDepths == Levels \cup {MaxTreeDepth + 1, MAX_DIRECTORY_DEPTH}

\* os.path.join for a relative second part
join(a, b) == IF a # <<>> /\ Last(a) = "/" THEN a \o b ELSE a \o <<"/">> \o b

RECURSIVE WalkRoot(_, _)
\* os.walk(top): the `root` it yields for the directory at level k
WalkRoot(top, k) == IF k = 0 THEN top ELSE join(WalkRoot(top, k - 1), <<"d">>)

\* str.endswith('.py')
endswith_py(file) == file # <<>> /\ Last(file) = ".py"

\* app.py 66: the expression compared with max_depth
DepthOf(directory, root) == Count(SubSeq(root, Len(directory) + 1, Len(root)), "/")

\* app.py 65-69 for the directory at level k
FilesAt(t, directory, max_depth, k) ==
    IF DepthOf(directory, WalkRoot(directory, k)) < max_depth
    THEN LET py == SelectSeq(FileOrder, LAMBDA f : f \in t.files[k] /\ endswith_py(f))
         IN  [i \in 1..Len(py) |-> join(WalkRoot(directory, k), py[i])]
    ELSE <<>>

\* app.py 62-70: the body of get_python_files on tree t
get_python_files(t, directory, max_depth) ==
    Flatten([j \in 1..(t.depth + 1) |-> FilesAt(t, directory, max_depth, j - 1)])

\* A call through st.cache_data(ttl=3600): the store is keyed by the arguments only.
Call(directory, max_depth) ==
    /\ Len(calls) < MaxCalls
    /\ LET key == <<directory, max_depth>>
           result == IF Hit(gpfCache, key) THEN Stored(gpfCache, key)
                     ELSE get_python_files(tree, directory, max_depth)
       IN  /\ gpfCache' = gpfCache \cup {<<key, result>>}
           /\ calls' = Append(calls, [directory |-> directory, max_depth |-> max_depth,
                                      tree |-> tree, result |-> result,
                                      hit |-> Hit(gpfCache, key)])
    /\ UNCHANGED <<tree, edits, mainVars, synthVars, urlVars, evalVars>>

\* the file system changes: a file appears or disappears, the deepest directory is
\* removed with its files, or a new deepest directory is created
ChangeTree ==
    /\ edits < MaxEdits
    /\ edits' = edits + 1
    /\ \/ \E k \in 0..tree.depth, f \in FileNames :
             tree' = [tree EXCEPT !.files[k] =
                         IF f \in @ THEN @ \ {f} ELSE @ \cup {f}]
       \/ /\ tree.depth > 0
          /\ tree' = [depth |-> tree.depth - 1,
                      files |-> [tree.files EXCEPT ![tree.depth] = {}]]
       \/ /\ tree.depth < MaxTreeDepth
          /\ tree' = [tree EXCEPT !.depth = @ + 1]
    /\ UNCHANGED <<gpfCache, calls, mainVars, synthVars, urlVars, evalVars>>

\* ttl=3600, app.py 61: an entry expires
ExpireListing ==
    /\ \E e \in gpfCache : gpfCache' = gpfCache \ {e}
    /\ UNCHANGED <<tree, edits, calls, mainVars, synthVars, urlVars, evalVars>>

EnumInit ==
    /\ MainInit /\ SynthFrozen /\ UrlFrozen /\ EvalFrozen
    /\ tree \in Trees
    /\ edits = 0
    /\ gpfCache = {}
    /\ calls = <<>>

EnumNext ==
    \/ \E directory \in RootSpellings, max_depth \in MaxDepths : Call(directory, max_depth)
    \/ ChangeTree
    \/ ExpireListing

SpecEnum == EnumInit /\ [][EnumNext]_vars

\* the '.py' files of tree t at the levels whose depth is below max_depth, as paths
\* relative to the root, for a measure of depth
Wanted(t, max_depth, depth(_)) ==
    {kf \in (0..t.depth) \X FileNames :
        /\ depth(kf[1]) < max_depth
        /\ kf[2] \in t.files[kf[1]]
        /\ endswith_py(kf[2])}

\* what a call returned, as <<level, file>> pairs
Got(c) ==
    {kf \in (0..c.tree.depth) \X FileNames :
        \E i \in 1..Len(c.result) : c.result[i] = join(WalkRoot(c.directory, kf[1]), kf[2])}

\* depth of a file = nesting level of its directory below the root (root 0, root/d 1)
NestingDepth(k) == k
\* depth of a file = separators in the relative path of its directory ("." 0, "d" 0, "d/d" 1)
RelPathDepth(k) == IF k = 0 THEN 0 ELSE k - 1

\* C3: every call of get_python_files, for either spelling of the root and every
\* max_depth, returns exactly the '.py' files of depth < max_depth of the tree as it is
\* at the time of the call, under one measure of depth for all calls.
C3_ExactlyFilesBelowMaxDepth ==
    \/ \A i \in 1..Len(calls) :
          Got(calls[i]) = Wanted(calls[i].tree, calls[i].max_depth, NestingDepth)
    \/ \A i \in 1..Len(calls) :
          Got(calls[i]) = Wanted(calls[i].tree, calls[i].max_depth, RelPathDepth)

(***************************************************************************)
(* SpecEval: evaluate_documentation, app.py 145-153, on bounded documents. *)
(* Strings are sequences of characters here.                               *)
(***************************************************************************)
\* the placeholders of app.py 148 and 149
PH_ORIGINAL == <<"{", "o", "r", "i", "g", "i", "n", "a", "l", "}">>
PH_GENERATED == <<"{", "g", "e", "n", "e", "r", "a", "t", "e", "d", "}">>

\* prompts.GRADING_PROMPT: a fixed text with one placeholder for each document
GRADING_PROMPT == <<"R", ":">> \o PH_ORIGINAL \o <<" ", "G", ":">> \o PH_GENERATED

StartsWith(s, prefix) ==
    Len(s) >= Len(prefix) /\ SubSeq(s, 1, Len(prefix)) = prefix

RECURSIVE replace(_, _, _)
\* str.replace(old, new): every occurrence of old, found left to right without overlap
replace(s, old, new) ==
    IF Len(s) < Len(old) THEN s
    ELSE IF StartsWith(s, old)
    THEN new \o replace(SubSeq(s, Len(old) + 1, Len(s)), old, new)
    ELSE <<Head(s)>> \o replace(Tail(s), old, new)

\* app.py 148-149
evaluate_prompt(original, generated) ==
    replace(replace(GRADING_PROMPT, PH_ORIGINAL, original), PH_GENERATED, generated)

Pieces == {<<"a">>, PH_ORIGINAL, PH_GENERATED}
Docs == {Flatten(ps) : ps \in SeqsUpTo(Pieces, MaxPieces)}

\* app.py 146-151: the prompt is built; return_agent(API_KEY, ENDPOINT,
\* DEPLOYMENT_NAME) then raises TypeError (agent.py 19 takes one parameter), so
\* nothing is stored by st.cache_data and no request leaves
Evaluate ==
    /\ ~evalDone
    /\ evalDone' = TRUE
    /\ evalPrompt' = evaluate_prompt(original_doc, generated_doc)
    /\ UNCHANGED <<original_doc, generated_doc, mainVars, synthVars, urlVars, enumVars>>

EvalInit ==
    /\ MainInit /\ SynthFrozen /\ UrlFrozen /\ EnumFrozen
    /\ original_doc \in Docs \ {<<>>}
    /\ generated_doc \in Docs
    /\ evalPrompt = <<>>
    /\ evalDone = FALSE

EvalNext == Evaluate

SpecEval == EvalInit /\ [][EvalNext]_vars

RECURSIVE SinglePass(_, _, _)
\* the template with each placeholder replaced by its document in one pass: text
\* that came from a document is not looked at again
SinglePass(t, original, generated) ==
    IF t = <<>> THEN <<>>
    ELSE IF StartsWith(t, PH_ORIGINAL)
    THEN original \o SinglePass(SubSeq(t, Len(PH_ORIGINAL) + 1, Len(t)), original, generated)
    ELSE IF StartsWith(t, PH_GENERATED)
    THEN generated \o SinglePass(SubSeq(t, Len(PH_GENERATED) + 1, Len(t)), original, generated)
    ELSE <<Head(t)>> \o SinglePass(Tail(t), original, generated)

\* C4: for every document pair, also with the literal placeholders inside the
\* documents, the prompt is the template with each placeholder replaced once by its
\* own document, inserted text is not substituted again, and filling the placeholders
\* in the other order gives the same prompt.
C4_SubstitutionIsSinglePass ==
    evalDone =>
        /\ evalPrompt = SinglePass(GRADING_PROMPT, original_doc, generated_doc)
        /\ evalPrompt = replace(replace(GRADING_PROMPT, PH_GENERATED, generated_doc),
                                PH_ORIGINAL, original_doc)

====
